---- MODULE Spec2Model ----
(***************************************************************************)
(* BarGenerator of rust_bar_generator (src/lib.rs): ticks are reduced to   *)
(* one-minute bars (update_tick), bars to window bars (update_bar), and a  *)
(* watchdog (generate_bar_event) force-closes a stale minute bar.          *)
(*                                                                         *)
(* Time is the instant in whole seconds, as wall-clock time of TZ_INFO     *)
(* (Asia/Shanghai, a fixed +08:00 offset, no daylight saving), counted     *)
(* from 2024-01-01 00:00:00 (a Monday).  Prices, volumes and open interest *)
(* (f64 in the source) are integers.  Option<T> is a sequence of length    *)
(* 0 (None) or 1 (Some); the datetime of a tick or bar that has none is a  *)
(* negative number.                                                        *)
(***************************************************************************)
EXTENDS Integers, Sequences, FiniteSets, TLC

\* ------------------------------------------------------------------ bounds
\* At most this many accepted ticks are merged into one in-progress minute bar.
MaxTicksPerBar == 2
\* At most this many bars are merged into one in-progress window bar.
MaxBarsPerWindow == 4
\* At most this many handlers are entered where the handlers are split at their sink calls.
MaxCalls == 4

\* ------------------------------------------------------------------ Option
None == << >>
Some(x) == << x >>
IsSome(o) == o # << >>
IsNone(o) == o = << >>
Unwrap(o) == o[1]

Max(a, b) == IF a >= b THEN a ELSE b
Min(a, b) == IF a <= b THEN a ELSE b

\* ---------------------------------------------------------------- calendar
\* chrono's Timelike / Datelike accessors on DateTime<Tz>.
IsLeapYear(y) == (y % 4 = 0 /\ y % 100 # 0) \/ y % 400 = 0
DaysInYear(y) == IF IsLeapYear(y) THEN 366 ELSE 365
DaysInMonth(y, m) ==
    IF m = 2 THEN (IF IsLeapYear(y) THEN 29 ELSE 28)
    ELSE IF m \in {4, 6, 9, 11} THEN 30 ELSE 31

second(dt) == dt % 60
minute(dt) == (dt \div 60) % 60
hour(dt) == (dt \div 3600) % 24
\* days since 2024-01-01
DayNumber(dt) == dt \div 86400

RECURSIVE YearFrom(_, _)
\* [year, ordinal0]: the year holding day number d and the 0-based day of that year
YearFrom(y, d) == IF d < DaysInYear(y) THEN [year |-> y, ordinal0 |-> d]
                  ELSE YearFrom(y + 1, d - DaysInYear(y))
RECURSIVE MonthFrom(_, _, _)
MonthFrom(y, m, d) == IF d < DaysInMonth(y, m) THEN [month |-> m, day |-> d + 1]
                      ELSE MonthFrom(y, m + 1, d - DaysInMonth(y, m))

year(dt) == YearFrom(2024, DayNumber(dt)).year
ordinal(dt) == YearFrom(2024, DayNumber(dt)).ordinal0 + 1
month(dt) == MonthFrom(year(dt), 1, ordinal(dt) - 1).month
day(dt) == MonthFrom(year(dt), 1, ordinal(dt) - 1).day
\* Monday = 1 .. Sunday = 7 (2024-01-01 is a Monday)
weekday(dt) == (DayNumber(dt) % 7) + 1

\* number of ISO weeks of year y: 53 iff Jan 1 is a Thursday, or a Wednesday in a leap year
RECURSIVE DaysBeforeYear(_)
DaysBeforeYear(y) == IF y <= 2024 THEN 0 ELSE DaysBeforeYear(y - 1) + DaysInYear(y - 1)
Jan1Weekday(y) == (DaysBeforeYear(y) % 7) + 1
IsoWeeksInYear(y) ==
    IF Jan1Weekday(y) = 4 \/ (Jan1Weekday(y) = 3 /\ IsLeapYear(y)) THEN 53 ELSE 52
\* dt.iso_week().week()
iso_week(dt) ==
    LET w == (ordinal(dt) - weekday(dt) + 10) \div 7
    IN  IF w < 1 THEN IsoWeeksInYear(year(dt) - 1)
        ELSE IF w > IsoWeeksInYear(year(dt)) THEN 1
        ELSE w

RECURSIVE DaysBeforeMonth(_, _)
DaysBeforeMonth(y, m) == IF m <= 1 THEN 0 ELSE DaysBeforeMonth(y, m - 1) + DaysInMonth(y, m - 1)
\* NaiveDate::from_ymd_opt(y, m, d).and_hms_opt(0, 0, 0) as an instant
from_ymd(y, m, d) == (DaysBeforeYear(y) + DaysBeforeMonth(y, m) + (d - 1)) * 86400

\* with_second(0).with_nanosecond(0)
TruncMinute(dt) == (dt \div 60) * 60
TruncHour(dt) == (dt \div 3600) * 3600
\* date_naive().and_hms_opt(0, 0, 0)
TruncDay(dt) == (dt \div 86400) * 86400

\* ------------------------------------------------------------------- state
VARIABLES
    \* BarGenerator: immutable configuration
    on_bar,             \* Option<Py<PyAny>>: TRUE iff a minute-bar sink is configured
    on_window_bar,      \* Option<Py<PyAny>>: TRUE iff a window-bar sink is configured
    interval,           \* RustInterval
    window,             \* usize
    interval_slice,     \* bool
    sinks_raise,        \* TRUE iff the configured Python callables raise when called
    \* BarGeneratorInner
    bar,                \* Option<RustBarData>: in-progress minute bar
    interval_count,     \* usize: transition counter
    reset_count,        \* usize: reset counter
    window_bar,         \* Option<RustBarData>: in-progress window bar
    last_tick,          \* Option<RustTickData>
    last_bar,           \* Option<RustBarData>
    bar_push_status,    \* HashMap<i64, bool>: the keys mapped to true
    \* environment
    now,                \* chrono::Utc::now() in TZ_INFO
    \* history, for stating properties
    on_bar_call,        \* Option: what the last call handed to on_bar
    on_window_bar_call, \* Option: what the last call handed to on_window_bar
    bar_ticks,          \* accepted ticks merged into the in-progress minute bar
    accepted_volume,    \* Option: cumulative volume of the last accepted tick
    window_bars,        \* bars merged into the in-progress window bar
    changes,            \* period-value changes seen since the last window emission
    returned,           \* Option: the PyResult of the last call, "Ok" or "Err"
    dropped,            \* TRUE iff the last call was an update_tick that returned at
                        \* the empty-tick test without reading the state
    \* calls in progress, for the specification that splits each handler where it
    \* calls a sink (the other specifications run each handler in one step)
    pc,                 \* per caller: "idle", or the sink call its handler is inside
    frame,              \* per caller: Option of the locals its handler holds meanwhile
    lock,               \* inner: RwLock<..>, Option of the caller that holds it
    calls_made,         \* handlers entered so far
    round_start,        \* bar, last_tick and deliveries when the first of the calls
                        \* that overlap began
    round_inputs,       \* the calls begun since then, in the order they began
    bar_serial,         \* minute bars created so far; the serial of the newest one
    removed,            \* serials of the minute bars taken from, or replaced in, inner.bar
    delivered,          \* serial and bar of each call of on_bar, in order
    window_serial,      \* window bars created so far
    window_removed,     \* serials of the window bars taken from inner.window_bar
    window_delivered    \* serial of each call of on_window_bar, in order

config == << on_bar, on_window_bar, interval, window, interval_slice, sinks_raise >>
inner == << bar, interval_count, reset_count, window_bar, last_tick, last_bar,
            bar_push_status >>
history == << on_bar_call, on_window_bar_call, bar_ticks, accepted_volume, window_bars,
             changes, returned, dropped >>
calls == << pc, frame, lock, calls_made, round_start, round_inputs, bar_serial, removed,
           delivered, window_serial, window_removed, window_delivered >>
vars == << config, inner, now, history, calls >>

RustInterval == {"TICK", "MINUTE", "HOUR", "DAILY", "WEEKLY", "MONTHLY"}

\* RustTickData, the fields the generator reads
Tick(dt, price, volume, oi) ==
    [datetime |-> dt, last_price |-> price, volume |-> volume, open_interest |-> oi]
\* RustBarData, the fields the generator reads or writes
Bar(dt, iv, o, h, l, c, v, oi) ==
    [datetime |-> dt, interval |-> iv, volume |-> v, open_interest |-> oi,
     open_price |-> o, high_price |-> h, low_price |-> l, close_price |-> c]

\* the watchdog's staleness threshold, Duration::minutes(2), in seconds
StaleThreshold == 120
\* generate() stamps the forced bar with now - Duration::minutes(1), in seconds
ForcedBarLag == 60

\* --------------------------------------------------------- BarGenerator::new
\* mutant of StepBy: the multiples of step that lie in lo..hi
StepBy_multiples(lo, hi, step) == {x \in lo..hi : x % step = 0}

\* (lo..hi).step_by(step)
StepBy(lo, hi, step) == {x \in lo..hi : (x - lo) % step = 0}
target_minutes == StepBy(0, 59, window)
target_hours == StepBy(0, 23, window)
target_days == StepBy(1, 31, window)
target_weeks == StepBy(1, 53, window)
target_months == StepBy(1, 12, window)

InitInner ==
    /\ bar = None
    /\ interval_count = 0
    /\ reset_count = 0
    /\ window_bar = None
    /\ last_tick = None
    /\ last_bar = None
    /\ bar_push_status = {}

InitHistory ==
    /\ on_bar_call = None
    /\ on_window_bar_call = None
    /\ bar_ticks = << >>
    /\ accepted_volume = None
    /\ window_bars = << >>
    /\ changes = 0
    /\ returned = None
    /\ dropped = FALSE

\* the threads, or the nested calls made from inside a sink, that enter the handlers
Callers == {"a", "b"}

\* no call is in progress and nothing was created, removed or delivered yet
InitCalls ==
    /\ pc = [c \in Callers |-> "idle"]
    /\ frame = [c \in Callers |-> None]
    /\ lock = None
    /\ calls_made = 0
    /\ round_start = None
    /\ round_inputs = << >>
    /\ bar_serial = 0
    /\ removed = {}
    /\ delivered = << >>
    /\ window_serial = 0
    /\ window_removed = {}
    /\ window_delivered = << >>

\* ------------------------------------------------------------ trim_bar_time
\* mutant of trim_bar_time: the seconds are kept
trim_bar_time_keeps_seconds(b) == b

trim_bar_time(b) == [b EXCEPT !.datetime = TruncMinute(@)]

\* ------------------------------------------------------ update_tick_internal
\* mutant of volume_change: the delta is not clamped at 0
volume_change_unclamped(tick, last) ==
    IF IsSome(last) THEN tick.volume - Unwrap(last).volume ELSE 0

\* volume_change of update_tick_internal
volume_change(tick, last) ==
    IF IsSome(last) THEN Max(tick.volume - Unwrap(last).volume, 0) ELSE 0

\* new_minute of update_tick_internal
new_minute(b, tick_dt) ==
    IF IsSome(b) THEN minute(Unwrap(b).datetime) # minute(tick_dt) ELSE TRUE

\* the bar created from the tick when new_minute
NewBarFromTick(tick) ==
    Bar(tick.datetime, "MINUTE", tick.last_price, tick.last_price, tick.last_price,
        tick.last_price, 0, 0)

\* mutant of MergeTickIntoBar: the high is not raised
MergeTickIntoBar_keeps_high(b, tick) ==
    [b EXCEPT !.low_price = Min(@, tick.last_price),
              !.close_price = tick.last_price,
              !.datetime = tick.datetime]

\* the in-progress bar updated by the tick when not new_minute
MergeTickIntoBar(b, tick) ==
    [b EXCEPT !.high_price = Max(@, tick.last_price),
              !.low_price = Min(@, tick.last_price),
              !.close_price = tick.last_price,
              !.datetime = tick.datetime]

\* mutant of BarAfterTick: a bar that was just created is given no volume
BarAfterTick_new_bar_empty(b, tick, last, is_new, change) ==
    LET b1 == IF is_new THEN NewBarFromTick(tick) ELSE MergeTickIntoBar(Unwrap(b), tick)
        b2 == [b1 EXCEPT !.open_interest = tick.open_interest]
        b3 == IF IsSome(last) /\ ~is_new THEN [b2 EXCEPT !.volume = @ + change] ELSE b2
    IN  Some(b3)

\* the second locked block of update_tick_internal: the new value of inner.bar
BarAfterTick(b, tick, last, is_new, change) ==
    LET b1 == IF is_new THEN NewBarFromTick(tick) ELSE MergeTickIntoBar(Unwrap(b), tick)
        b2 == [b1 EXCEPT !.open_interest = tick.open_interest]
        b3 == IF IsSome(last) THEN [b2 EXCEPT !.volume = @ + change] ELSE b2
    IN  Some(b3)

\* what the history keeps of an accepted tick: the tick and the cumulative
\* volume of the accepted tick before it (None for the first one)
TickEntry(tick) ==
    [datetime |-> tick.datetime, last_price |-> tick.last_price, volume |-> tick.volume,
     prev_volume |-> accepted_volume]

\* mutant of is_empty_tick: no tick is taken for an empty one
is_empty_tick_never(tick) == FALSE

\* mutant of is_empty_tick: a negative last price is taken for an empty tick too
is_empty_tick_or_negative(tick) == tick.last_price <= 0

\* the test update_tick_internal starts with: tick.last_price == 0.0
is_empty_tick(tick) == tick.last_price = 0

\* mutant of get_datetime_chrono: a missing datetime is read as the first instant
get_datetime_chrono_or_epoch(x) == Some(Max(x.datetime, 0))

\* get_datetime_chrono of RustTickData and RustBarData; a datetime of None is
\* written as a negative number
get_datetime_chrono(x) == IF x.datetime < 0 THEN None ELSE Some(x.datetime)

\* mutant of ReturnAfterSink: the error of the sink is returned to the caller
ReturnAfterSink_propagates(raised) == IF raised THEN "Err" ELSE "Ok"

\* what update_tick_internal and update_bar_internal return after the sink was
\* called: an Err of callback.call1 is printed and dropped
ReturnAfterSink(raised) == "Ok"

\* update_tick -> update_tick_internal, with the tick already converted
UpdateTick(tick) ==
    IF is_empty_tick(tick)
    THEN /\ returned' = Some("Ok")
         /\ dropped' = TRUE
         /\ on_bar_call' = None
         /\ on_window_bar_call' = None
         /\ UNCHANGED << calls, config, inner, now, bar_ticks, accepted_volume, window_bars,
                         changes >>
    ELSE IF IsNone(get_datetime_chrono(tick))
    THEN /\ returned' = Some("Err")
         /\ dropped' = FALSE
         /\ on_bar_call' = None
         /\ on_window_bar_call' = None
         /\ UNCHANGED << calls, config, inner, now, bar_ticks, accepted_volume, window_bars,
                         changes >>
    ELSE LET tick_dt == Unwrap(get_datetime_chrono(tick))
             change == volume_change(tick, last_tick)
             is_new == new_minute(bar, tick_dt)
             old_bar == IF is_new THEN bar ELSE None
         IN  /\ is_new \/ Len(bar_ticks) < MaxTicksPerBar
             /\ returned' = Some(ReturnAfterSink(IsSome(old_bar) /\ on_bar /\ sinks_raise))
             /\ dropped' = FALSE
             /\ on_bar_call' =
                    IF IsSome(old_bar) /\ on_bar
                    THEN Some([bar |-> trim_bar_time(Unwrap(old_bar)), ticks |-> bar_ticks,
                               by |-> "update_tick"])
                    ELSE None
             /\ bar' = BarAfterTick(bar, tick, last_tick, is_new, change)
             /\ last_tick' = Some(tick)
             /\ bar_ticks' = IF is_new THEN << TickEntry(tick) >>
                             ELSE Append(bar_ticks, TickEntry(tick))
             /\ accepted_volume' = Some(tick.volume)
             /\ on_window_bar_call' = None
             /\ UNCHANGED << calls, config, interval_count, reset_count, window_bar, last_bar,
                             bar_push_status, now, window_bars, changes >>

\* ------------------------------------------- generate_bar_event and generate
\* mutant of should_generate: the two instants are subtracted the wrong way round
should_generate_reversed(b) == b.datetime - now > StaleThreshold

\* mutant of should_generate: a bar exactly two minutes old is stale too
should_generate_inclusive(b) == now - b.datetime >= StaleThreshold

\* should_generate of generate_bar_event
should_generate(b) == now - b.datetime > StaleThreshold

\* the bar generate() hands to on_bar
ForcedBar(b) == trim_bar_time([b EXCEPT !.datetime = now - ForcedBarLag])

\* what generate, and generate_bar_event after it, return after the sink was
\* called: callback.call1(..)? and self.generate(py)? hand the Err on
ReturnAfterGenerate(raised) == IF raised THEN "Err" ELSE "Ok"

GenerateBarEvent ==
    /\ on_window_bar_call' = None
    /\ dropped' = FALSE
    /\ IF IsSome(bar) /\ Unwrap(bar).datetime \notin bar_push_status
          /\ should_generate(Unwrap(bar))
       THEN /\ bar_push_status' = bar_push_status \cup {Unwrap(bar).datetime}
            /\ bar' = None
            /\ returned' = Some(ReturnAfterGenerate(on_bar /\ sinks_raise))
            /\ on_bar_call' =
                   IF on_bar
                   THEN Some([bar |-> ForcedBar(Unwrap(bar)), ticks |-> bar_ticks,
                              by |-> "generate"])
                   ELSE None
            /\ bar_ticks' = << >>
       ELSE /\ on_bar_call' = None
            /\ returned' = Some("Ok")
            /\ UNCHANGED << bar, bar_push_status, bar_ticks >>
    /\ UNCHANGED << calls, config, interval_count, reset_count, window_bar, last_tick, last_bar,
                    now, accepted_volume, window_bars, changes >>

\* the clock read by chrono::Utc::now() moves forward
AdvanceClock(t) ==
    /\ t > now
    /\ now' = t
    /\ on_bar_call' = None
    /\ on_window_bar_call' = None
    /\ UNCHANGED << calls, config, inner, bar_ticks, accepted_volume, window_bars, changes,
                    returned, dropped >>

\* ------------------------------------------------------- update_bar_internal
\* mutant of get_interval_value_from_dt: MINUTE is always the minute of the hour
get_interval_value_from_dt_minute_of_hour(dt) ==
    CASE interval = "MINUTE" -> minute(dt)
      [] interval = "HOUR" -> hour(dt)
      [] interval = "DAILY" -> day(dt)
      [] interval = "WEEKLY" -> iso_week(dt)
      [] interval = "MONTHLY" -> month(dt)
      [] OTHER -> 0

\* mutant of get_interval_value_from_dt: the fallback arm is the minute of the hour
get_interval_value_from_dt_fallback_minute(dt) ==
    CASE interval = "MINUTE" ->
            IF interval_slice /\ window >= 60 THEN hour(dt) * 60 + minute(dt) ELSE minute(dt)
      [] interval = "HOUR" -> hour(dt)
      [] interval = "DAILY" -> day(dt)
      [] interval = "WEEKLY" -> iso_week(dt)
      [] interval = "MONTHLY" -> month(dt)
      [] OTHER -> minute(dt)

\* get_interval_value_from_dt
get_interval_value_from_dt(dt) ==
    CASE interval = "MINUTE" ->
            IF interval_slice /\ window >= 60 THEN hour(dt) * 60 + minute(dt) ELSE minute(dt)
      [] interval = "HOUR" -> hour(dt)
      [] interval = "DAILY" -> day(dt)
      [] interval = "WEEKLY" -> iso_week(dt)
      [] interval = "MONTHLY" -> month(dt)
      [] OTHER -> 0

\* mutant of check_target_value: the target minutes are counted from 1, as the days are
check_target_value_from_one(value) ==
    CASE interval = "MINUTE" ->
            IF interval_slice /\ window >= 60 THEN value % window = 0
            ELSE value \in StepBy(1, 59, window)
      [] interval = "HOUR" -> value \in target_hours
      [] interval = "DAILY" -> value \in target_days
      [] interval = "WEEKLY" -> value \in target_weeks
      [] interval = "MONTHLY" -> value \in target_months
      [] OTHER -> FALSE

\* check_target_value
check_target_value(value) ==
    CASE interval = "MINUTE" ->
            IF interval_slice /\ window >= 60 THEN value % window = 0
            ELSE value \in target_minutes
      [] interval = "HOUR" -> value \in target_hours
      [] interval = "DAILY" -> value \in target_days
      [] interval = "WEEKLY" -> value \in target_weeks
      [] interval = "MONTHLY" -> value \in target_months
      [] OTHER -> FALSE

\* mutant of use_target_check: slicing alone selects the target check
use_target_check_slice_only == interval_slice

\* use_target_check of update_bar_internal
use_target_check ==
    CASE interval = "MINUTE" ->
            IF interval_slice
            THEN (IF window < 60 THEN 60 % window = 0 ELSE 1440 % window = 0)
            ELSE FALSE
      [] interval = "HOUR" -> interval_slice /\ 24 % window = 0
      [] interval = "DAILY" -> interval_slice /\ 7 % window = 0
      [] interval = "WEEKLY" -> interval_slice /\ 52 % window = 0
      [] OTHER -> interval_slice

\* mutant of WindowStart: DAILY and MONTHLY label the window with the bar's own period
WindowStart_own_period(bar_dt) ==
    CASE interval = "MINUTE" -> TruncMinute(bar_dt)
      [] interval = "HOUR" -> TruncHour(bar_dt)
      [] interval = "DAILY" -> TruncDay(bar_dt)
      [] interval = "WEEKLY" -> TruncDay(bar_dt + 7 * 86400)
      [] interval = "MONTHLY" -> from_ymd(year(bar_dt), month(bar_dt), 1)
      [] OTHER -> bar_dt

\* dt of update_bar_internal: the timestamp a new window bar is given
WindowStart(bar_dt) ==
    CASE interval = "MINUTE" -> TruncMinute(bar_dt)
      [] interval = "HOUR" -> TruncHour(bar_dt)
      [] interval = "DAILY" -> TruncDay(bar_dt + 86400)
      [] interval = "WEEKLY" -> TruncDay(bar_dt + 7 * 86400)
      [] interval = "MONTHLY" ->
            IF month(bar_dt) = 12 THEN from_ymd(year(bar_dt) + 1, 1, 1)
            ELSE from_ymd(year(bar_dt), month(bar_dt) + 1, 1)
      [] OTHER -> bar_dt

\* mutant of NewWindowBar: the new window bar starts with the bar's volume
NewWindowBar_with_volume(b) ==
    Bar(WindowStart(b.datetime), interval, b.open_price, b.high_price, b.low_price,
        b.close_price, b.volume, b.open_interest)

\* new_window_bar of update_bar_internal
NewWindowBar(b) ==
    Bar(WindowStart(b.datetime), interval, b.open_price, b.high_price, b.low_price,
        b.close_price, 0, b.open_interest)

\* mutant of MergeBarIntoWindow: the low is not lowered
MergeBarIntoWindow_keeps_low(wb, b) == [wb EXCEPT !.high_price = Max(@, b.high_price)]

\* the merge of a bar into the in-progress window bar
MergeBarIntoWindow(wb, b) ==
    [wb EXCEPT !.high_price = Max(@, b.high_price),
               !.low_price = Min(@, b.low_price)]

\* mutant of WindowAfterBar: close, volume and open interest are not updated
WindowAfterBar_without_update(wb, b) ==
    IF IsNone(wb) THEN NewWindowBar(b) ELSE MergeBarIntoWindow(Unwrap(wb), b)

\* the window bar after create-or-merge and the unconditional update
WindowAfterBar(wb, b) ==
    LET w1 == IF IsNone(wb) THEN NewWindowBar(b) ELSE MergeBarIntoWindow(Unwrap(wb), b)
    IN  [w1 EXCEPT !.close_price = b.close_price,
                   !.volume = @ + b.volume,
                   !.open_interest = b.open_interest]

\* mutant of PeriodChanged: the first bar counts as a change of period
PeriodChanged_or_first(last, bar_dt) ==
    \/ IsNone(last)
    \/ get_interval_value_from_dt(bar_dt) # get_interval_value_from_dt(Unwrap(last).datetime)

\* now_value != last_value, for the bar stored before this one
PeriodChanged(last, bar_dt) ==
    /\ IsSome(last)
    /\ get_interval_value_from_dt(bar_dt) # get_interval_value_from_dt(Unwrap(last).datetime)

\* mutant of CountAfterBar: every bar after the first is counted, changed or not
CountAfterBar_every_bar(last, bar_dt, count) ==
    IF IsSome(last) /\ ~use_target_check THEN count + 1 ELSE count

\* mutant of CountAfterBar: a change is counted under the target check as well
CountAfterBar_target_too(last, bar_dt, count) ==
    IF PeriodChanged(last, bar_dt) THEN count + 1 ELSE count

\* inner.interval_count after the boundary check, before the reset
CountAfterBar(last, bar_dt, count) ==
    IF PeriodChanged(last, bar_dt) /\ ~use_target_check THEN count + 1 ELSE count

\* finished of update_bar_internal
WindowFinished(last, bar_dt, count) ==
    /\ PeriodChanged(last, bar_dt)
    /\ IF use_target_check
       THEN check_target_value(get_interval_value_from_dt(bar_dt))
       ELSE CountAfterBar(last, bar_dt, count) % window = 0

\* mutant of PushStatusAfterBar: the force-flush marks survive the emission
PushStatusAfterBar_kept(finished) == bar_push_status

\* mutant of PushStatusAfterBar: every update_bar clears the force-flush marks
PushStatusAfterBar_cleared(finished) == {}

\* inner.bar_push_status after the call: cleared when the window is detached
PushStatusAfterBar(finished) == IF finished THEN {} ELSE bar_push_status

\* what the history keeps of an ingested bar
BarEntry(b) ==
    [open_price |-> b.open_price, high_price |-> b.high_price, low_price |-> b.low_price,
     close_price |-> b.close_price, volume |-> b.volume, open_interest |-> b.open_interest]

\* update_bar -> update_bar_internal, with the bar already converted
UpdateBar(b) ==
    IF IsNone(get_datetime_chrono(b))
    THEN /\ returned' = Some("Err")
         /\ dropped' = FALSE
         /\ on_bar_call' = None
         /\ on_window_bar_call' = None
         /\ UNCHANGED << calls, config, inner, now, bar_ticks, accepted_volume, window_bars,
                         changes >>
    ELSE LET bar_dt == Unwrap(get_datetime_chrono(b))
             wb == WindowAfterBar(window_bar, b)
             finished == WindowFinished(last_bar, bar_dt, interval_count)
         IN  /\ IsNone(window_bar) \/ Len(window_bars) < MaxBarsPerWindow
             /\ window_bar' = IF finished THEN None ELSE Some(wb)
             /\ interval_count' = IF finished THEN 0
                                  ELSE CountAfterBar(last_bar, bar_dt, interval_count)
             /\ reset_count' = IF finished THEN 0 ELSE reset_count
             /\ bar_push_status' = PushStatusAfterBar(finished)
             /\ last_bar' = Some(b)
             /\ on_window_bar_call' =
                    IF finished /\ on_window_bar
                    THEN Some([bar |-> wb, bars |-> Append(window_bars, BarEntry(b))])
                    ELSE None
             /\ returned' = Some(ReturnAfterSink(finished /\ on_window_bar /\ sinks_raise))
             /\ dropped' = FALSE
             /\ window_bars' = IF finished THEN << >> ELSE Append(window_bars, BarEntry(b))
             /\ changes' = IF finished THEN 0
                           ELSE IF PeriodChanged(last_bar, bar_dt) THEN changes + 1
                           ELSE changes
             /\ on_bar_call' = None
             /\ UNCHANGED << calls, config, bar, last_tick, now, bar_ticks, accepted_volume >>

\* ------------------------------------------- the handlers, split at the sink
\* A pymethod runs holding the interpreter lock, so another caller can enter a
\* handler only while a sink runs Python code: from another thread the
\* interpreter switches to, or from the sink itself.  Each handler is therefore
\* one step up to its sink call and one step after it, and a handler that calls
\* no sink is one step.
Quiescent == \A c \in Callers : pc[c] = "idle"

\* caller c enters a handler
Enter(c, entry) ==
    /\ pc[c] = "idle"
    /\ calls_made < MaxCalls
    /\ calls_made' = calls_made + 1
    /\ round_start' =
           IF Quiescent
           THEN Some([bar |-> bar, last_tick |-> last_tick, delivered |-> Len(delivered),
                      window_bar |-> window_bar, last_bar |-> last_bar,
                      interval_count |-> interval_count,
                      window_delivered |-> Len(window_delivered)])
           ELSE round_start
    /\ round_inputs' = IF Quiescent THEN << entry >> ELSE Append(round_inputs, entry)

\* mutant of LockAfterBlock: the guard of the first block lives until the handler returns
LockAfterBlock_held(c) == Some(c)

\* the lock where a {..} block of a handler ends: its guard is dropped
LockAfterBlock(c) == None

\* update_tick_internal up to the call of on_bar, or to its end when it calls no sink
TickBegin(c, tick) ==
    /\ Enter(c, [op |-> "update_tick", tick |-> tick])
    /\ IF is_empty_tick(tick) \/ IsNone(get_datetime_chrono(tick))
       THEN UNCHANGED << inner, pc, frame, lock, bar_serial, removed, delivered >>
       ELSE LET tick_dt == Unwrap(get_datetime_chrono(tick))
                change == volume_change(tick, last_tick)
                is_new == new_minute(bar, tick_dt)
                old_bar == IF is_new THEN bar ELSE None
                taken == IF is_new THEN None ELSE bar
            IN  /\ lock = None
                /\ removed' = IF IsSome(old_bar) THEN removed \cup {bar_serial} ELSE removed
                /\ IF IsSome(old_bar) /\ on_bar
                   THEN /\ delivered' =
                               Append(delivered, [serial |-> bar_serial,
                                                  bar |-> trim_bar_time(Unwrap(old_bar))])
                        /\ bar' = taken
                        /\ pc' = [pc EXCEPT ![c] = "update_tick:on_bar"]
                        /\ frame' = [frame EXCEPT ![c] =
                                        Some([tick |-> tick, volume_change |-> change,
                                              new_minute |-> is_new])]
                        /\ lock' = LockAfterBlock(c)
                        /\ UNCHANGED << last_tick, bar_serial >>
                   ELSE /\ bar' = BarAfterTick(taken, tick, last_tick, is_new, change)
                        /\ last_tick' = Some(tick)
                        /\ bar_serial' = IF is_new THEN bar_serial + 1 ELSE bar_serial
                        /\ UNCHANGED << delivered, pc, frame, lock >>
                /\ UNCHANGED << interval_count, reset_count, window_bar, last_bar,
                                bar_push_status >>
    /\ UNCHANGED << config, now, history, window_serial, window_removed, window_delivered >>

\* update_tick_internal from the return of on_bar: the second locked block, which
\* uses the new_minute and volume_change computed before the sink was called
TickEnd(c) ==
    /\ pc[c] = "update_tick:on_bar"
    /\ lock = None
    /\ LET f == Unwrap(frame[c])
       IN  /\ removed' = IF f.new_minute /\ IsSome(bar) THEN removed \cup {bar_serial}
                          ELSE removed
           /\ bar' = BarAfterTick(bar, f.tick, last_tick, f.new_minute, f.volume_change)
           /\ bar_serial' = IF f.new_minute THEN bar_serial + 1 ELSE bar_serial
           /\ last_tick' = Some(f.tick)
    /\ pc' = [pc EXCEPT ![c] = "idle"]
    /\ frame' = [frame EXCEPT ![c] = None]
    /\ UNCHANGED << config, now, history, interval_count, reset_count, window_bar, last_bar,
                    bar_push_status, lock, calls_made, round_start, round_inputs, delivered,
                    window_serial, window_removed, window_delivered >>

\* update_bar_internal up to the call of on_window_bar, or to its end when it
\* calls no sink
BarBegin(c, b) ==
    /\ Enter(c, [op |-> "update_bar", bar |-> b])
    /\ IF IsNone(get_datetime_chrono(b))
       THEN UNCHANGED << inner, pc, frame, lock, window_serial, window_removed,
                         window_delivered >>
       ELSE LET bar_dt == Unwrap(get_datetime_chrono(b))
                wb == WindowAfterBar(window_bar, b)
                finished == WindowFinished(last_bar, bar_dt, interval_count)
                serial == IF IsNone(window_bar) THEN window_serial + 1 ELSE window_serial
            IN  /\ lock = None
                /\ window_bar' = IF finished THEN None ELSE Some(wb)
                /\ interval_count' = IF finished THEN 0
                                     ELSE CountAfterBar(last_bar, bar_dt, interval_count)
                /\ reset_count' = IF finished THEN 0 ELSE reset_count
                /\ bar_push_status' = PushStatusAfterBar(finished)
                /\ window_serial' = serial
                /\ window_removed' = IF finished THEN window_removed \cup {serial}
                                     ELSE window_removed
                /\ IF finished /\ on_window_bar
                   THEN /\ window_delivered' = Append(window_delivered, serial)
                        /\ pc' = [pc EXCEPT ![c] = "update_bar:on_window_bar"]
                        /\ frame' = [frame EXCEPT ![c] = Some([bar |-> b])]
                        /\ lock' = LockAfterBlock(c)
                        /\ UNCHANGED last_bar
                   ELSE /\ last_bar' = Some(b)
                        /\ UNCHANGED << window_delivered, pc, frame, lock >>
                /\ UNCHANGED << bar, last_tick >>
    /\ UNCHANGED << config, now, history, bar_serial, removed, delivered >>

\* update_bar_internal from the return of on_window_bar: the bar is stored as last_bar
BarEnd(c) ==
    /\ pc[c] = "update_bar:on_window_bar"
    /\ lock = None
    /\ last_bar' = Some(Unwrap(frame[c]).bar)
    /\ pc' = [pc EXCEPT ![c] = "idle"]
    /\ frame' = [frame EXCEPT ![c] = None]
    /\ UNCHANGED << config, now, history, bar, interval_count, reset_count, window_bar,
                    last_tick, bar_push_status, lock, calls_made, round_start, round_inputs,
                    bar_serial, removed, delivered, window_serial, window_removed,
                    window_delivered >>

\* generate_bar_event, and generate inside it, up to the call of on_bar, or to its
\* end when it calls no sink
GenerateBegin(c) ==
    /\ Enter(c, [op |-> "generate_bar_event"])
    /\ lock = None
    /\ IF IsSome(bar) /\ Unwrap(bar).datetime \notin bar_push_status
          /\ should_generate(Unwrap(bar))
       THEN /\ bar_push_status' = bar_push_status \cup {Unwrap(bar).datetime}
            /\ bar' = None
            /\ removed' = removed \cup {bar_serial}
            /\ IF on_bar
               THEN /\ delivered' =
                           Append(delivered, [serial |-> bar_serial,
                                              bar |-> ForcedBar(Unwrap(bar))])
                    /\ pc' = [pc EXCEPT ![c] = "generate:on_bar"]
                    /\ lock' = LockAfterBlock(c)
               ELSE UNCHANGED << delivered, pc, lock >>
       ELSE UNCHANGED << bar, bar_push_status, removed, delivered, pc, lock >>
    /\ UNCHANGED << config, now, history, interval_count, reset_count, window_bar, last_tick,
                    last_bar, frame, bar_serial, window_serial, window_removed,
                    window_delivered >>

\* generate from the return of on_bar
GenerateEnd(c) ==
    /\ pc[c] = "generate:on_bar"
    /\ pc' = [pc EXCEPT ![c] = "idle"]
    /\ UNCHANGED << config, inner, now, history, frame, lock, calls_made, round_start,
                    round_inputs, bar_serial, removed, delivered, window_serial,
                    window_removed, window_delivered >>

\* generate_bar_event step by step.  Between its three locked blocks (the read of
\* the bar, the insert of the mark, the take inside generate) the handler runs
\* Rust code only: it holds the interpreter lock it was called with, so no other
\* caller runs until it calls on_bar or returns.
\* mutant of HoldsInterpreter: the interpreter lock is released between the blocks
HoldsInterpreter_never(c) == FALSE

\* caller c is between two locked blocks of generate_bar_event
HoldsInterpreter(c) == pc[c] \in {"generate_bar_event:read", "generate_bar_event:marked"}

\* caller c can be running: no other caller holds the interpreter lock
MayRun(c) == \A d \in Callers \ {c} : ~HoldsInterpreter(d)

\* generate_bar_event: the block under the read lock, up to should_generate
GenerateRead(c) ==
    /\ MayRun(c)
    /\ Enter(c, [op |-> "generate_bar_event"])
    /\ lock = None
    /\ IF IsSome(bar) /\ Unwrap(bar).datetime \notin bar_push_status
          /\ should_generate(Unwrap(bar))
       THEN /\ pc' = [pc EXCEPT ![c] = "generate_bar_event:read"]
            /\ frame' = [frame EXCEPT ![c] = Some([bar_timestamp |-> Unwrap(bar).datetime])]
       ELSE UNCHANGED << pc, frame >>
    /\ UNCHANGED << config, inner, now, history, lock, bar_serial, removed, delivered,
                    window_serial, window_removed, window_delivered >>

\* generate_bar_event: the block under the write lock that inserts the mark
GenerateMark(c) ==
    /\ MayRun(c)
    /\ pc[c] = "generate_bar_event:read"
    /\ lock = None
    /\ bar_push_status' = bar_push_status \cup {Unwrap(frame[c]).bar_timestamp}
    /\ pc' = [pc EXCEPT ![c] = "generate_bar_event:marked"]
    /\ UNCHANGED << config, now, history, bar, interval_count, reset_count, window_bar,
                    last_tick, last_bar, frame, lock, calls_made, round_start, round_inputs,
                    bar_serial, removed, delivered, window_serial, window_removed,
                    window_delivered >>

\* generate: inner.bar.take() under the write lock, up to the call of on_bar, or
\* to its end when it calls no sink
GenerateTake(c) ==
    /\ MayRun(c)
    /\ pc[c] = "generate_bar_event:marked"
    /\ lock = None
    /\ bar' = None
    /\ removed' = IF IsSome(bar) THEN removed \cup {bar_serial} ELSE removed
    /\ frame' = [frame EXCEPT ![c] = None]
    /\ IF IsSome(bar) /\ on_bar
       THEN /\ delivered' =
                   Append(delivered, [serial |-> bar_serial, bar |-> ForcedBar(Unwrap(bar))])
            /\ pc' = [pc EXCEPT ![c] = "generate:on_bar"]
       ELSE /\ pc' = [pc EXCEPT ![c] = "idle"]
            /\ UNCHANGED delivered
    /\ UNCHANGED << config, now, history, interval_count, reset_count, window_bar, last_tick,
                    last_bar, bar_push_status, lock, calls_made, round_start, round_inputs,
                    bar_serial, window_serial, window_removed, window_delivered >>

\* ------------------------------------------------------------------ inputs
\* 09:30:00, 09:30:30, 09:31:00 and 10:30:00 of 2024-01-01
TickTimes == {34200, 34230, 34260, 37800}
TickPrices == {1, 2}
TickVolumes == {3, 5}
\* the accepted ticks, and one empty tick (last_price = 0)
TickInputs ==
    {Tick(dt, p, v, 10) : dt \in TickTimes, p \in TickPrices, v \in TickVolumes}
        \cup {Tick(34230, 0, 5, 10)}
\* the clock starts at 09:30:00 (34200) and is read at 09:32:00, 09:32:01 and 10:32:01
ClockTimes == {34320, 34321, 37921}

\* [interval, window, interval_slice] of the generators whose window side is explored:
\* a target-set policy (60 % 5 = 0) and two counter policies (7 % 3 # 0; no slicing)
WindowConfigs ==
    {<< "MINUTE", 5, TRUE >>, << "DAILY", 3, TRUE >>, << "MINUTE", 2, FALSE >>}
\* timestamps of the bars fed to a generator of the given target granularity:
\* MINUTE: 09:00, 09:03, 09:05 and 10:05 of 2024-01-01;
\* DAILY: 09:00 of Jan 1, Jan 2, Jan 31 and Feb 1 of 2024
BarTimes(iv) ==
    IF iv = "DAILY" THEN {32400, 118800, 2624400, 2710800}
    ELSE {32400, 32580, 32700, 36300}
\* [open, high, low, close, volume, open interest] of the bars fed to update_bar
BarBodies == {<< 2, 2, 2, 2, 1, 10 >>, << 1, 3, 1, 2, 2, 11 >>, << 3, 4, 2, 3, 0, 10 >>}
BarInputs(iv) ==
    {Bar(dt, "MINUTE", x[1], x[2], x[3], x[4], x[5], x[6]) : dt \in BarTimes(iv), x \in BarBodies}

\* the inputs of the specification that runs both reducers and the watchdog
FewTicks ==
    {Tick(34200, 1, 3, 10), Tick(34200, 2, 5, 10), Tick(34260, 2, 3, 10), Tick(34200, 0, 5, 10)}
FewClockTimes == {34321}
\* the last one is malformed: its open is above its high
FewBars ==
    {Bar(34200, "MINUTE", 1, 3, 1, 2, 1, 10), Bar(34260, "MINUTE", 2, 2, 2, 2, 2, 11),
     Bar(34260, "MINUTE", 3, 2, 1, 1, 1, 10)}
FewConfigs == {<< "MINUTE", 1, TRUE >>, << "MINUTE", 2, FALSE >>}

\* --------------------------------------------------------- specifications
\* the tick reducer and the watchdog, with both sinks configured
InitTick ==
    /\ on_bar = TRUE
    /\ on_window_bar = TRUE
    /\ interval = "MINUTE"
    /\ window = 1
    /\ interval_slice = TRUE
    /\ sinks_raise = FALSE
    /\ InitInner
    /\ now = 34200
    /\ InitHistory
    /\ InitCalls

NextTick ==
    \/ \E tick \in TickInputs : UpdateTick(tick)
    \/ GenerateBarEvent
    \/ \E t \in ClockTimes : AdvanceClock(t)

SpecTick == InitTick /\ [][NextTick]_vars

\* the tick reducer under a scheduler that keeps calling generate_bar_event while
\* the clock keeps moving; no tick is ever required to arrive
SpecTickLive ==
    /\ SpecTick
    /\ WF_vars(GenerateBarEvent)
    /\ WF_vars(\E t \in ClockTimes : AdvanceClock(t))

\* the window reducer, for each configuration of WindowConfigs
InitWindow ==
    /\ on_bar = TRUE
    /\ on_window_bar \in BOOLEAN
    /\ \E c \in WindowConfigs : interval = c[1] /\ window = c[2] /\ interval_slice = c[3]
    /\ sinks_raise = FALSE
    /\ InitInner
    /\ now = 34200
    /\ InitHistory
    /\ InitCalls

NextWindow == \E b \in BarInputs(interval) : UpdateBar(b)

SpecWindow == InitWindow /\ [][NextWindow]_vars

\* both reducers and the watchdog on one generator, with or without sinks
Init ==
    /\ on_bar \in BOOLEAN
    /\ on_window_bar \in BOOLEAN
    /\ \E c \in FewConfigs : interval = c[1] /\ window = c[2] /\ interval_slice = c[3]
    /\ sinks_raise = FALSE
    /\ InitInner
    /\ now = 34200
    /\ InitHistory
    /\ InitCalls

Next ==
    \/ \E tick \in FewTicks : UpdateTick(tick)
    \/ \E b \in FewBars : UpdateBar(b)
    \/ GenerateBarEvent
    \/ \E t \in FewClockTimes : AdvanceClock(t)

Spec == Init /\ [][Next]_vars

\* [interval, window, interval_slice] of the generators explored over the calendar:
\* MONTHLY with and without slicing, and a target-set policy for each of DAILY
\* (7 % 7 = 0), WEEKLY (52 % 2 = 0), HOUR (24 % 2 = 0) and MINUTE with a window of
\* an hour or more (1440 % 120 = 0)
CalendarConfigs ==
    {<< "MONTHLY", 2, TRUE >>, << "MONTHLY", 2, FALSE >>, << "DAILY", 7, TRUE >>,
     << "WEEKLY", 2, TRUE >>, << "HOUR", 2, TRUE >>, << "MINUTE", 120, TRUE >>}
\* timestamps of the bars fed to a generator of the given target granularity:
\* MONTHLY: 09:00 of Feb 15, Mar 15, Apr 15 and May 15 of 2024;
\* DAILY: 09:00 of Jan 7, Jan 8, Jan 14 and Jan 15 of 2024;
\* WEEKLY: 09:00 of the Mondays Jan 1, Jan 8, Jan 15 and Jan 22 of 2024 (weeks 1 to 4);
\* HOUR: 09:00, 10:00, 11:00 and 12:00 of 2024-01-01;
\* MINUTE: 09:00, 09:30, 10:00 and 11:00 of 2024-01-01
CalendarTimes(iv) ==
    CASE iv = "MONTHLY" -> {3920400, 6426000, 9104400, 11696400}
      [] iv = "DAILY" -> {550800, 637200, 1155600, 1242000}
      [] iv = "WEEKLY" -> {32400, 637200, 1242000, 1846800}
      [] iv = "HOUR" -> {32400, 36000, 39600, 43200}
      [] OTHER -> {32400, 34200, 36000, 39600}
\* [open, high, low, close, volume, open interest] of those bars
CalendarBodies == {<< 2, 2, 2, 2, 1, 10 >>, << 1, 3, 1, 2, 2, 11 >>}
CalendarBars(iv) ==
    {Bar(dt, "MINUTE", x[1], x[2], x[3], x[4], x[5], x[6]) :
        dt \in CalendarTimes(iv), x \in CalendarBodies}

\* the window reducer, for each configuration of CalendarConfigs
InitCalendar ==
    /\ on_bar = TRUE
    /\ on_window_bar \in BOOLEAN
    /\ \E c \in CalendarConfigs : interval = c[1] /\ window = c[2] /\ interval_slice = c[3]
    /\ sinks_raise = FALSE
    /\ InitInner
    /\ now = 34200
    /\ InitHistory
    /\ InitCalls

NextCalendar == \E b \in CalendarBars(interval) : UpdateBar(b)

SpecCalendar == InitCalendar /\ [][NextCalendar]_vars

\* the configurations of the specification of the boundary policy: for each of
\* MINUTE, HOUR, DAILY and WEEKLY a sliced window that divides the cycle, a
\* sliced window that does not, and an unsliced window; MINUTE also with windows
\* of an hour or more (1440 % 120 = 0, 1440 % 100 # 0); MONTHLY and TICK with
\* either slice value
PolicyConfigs ==
    {<< "MINUTE", 6, TRUE >>, << "MINUTE", 7, TRUE >>, << "MINUTE", 6, FALSE >>,
     << "MINUTE", 120, TRUE >>, << "MINUTE", 100, TRUE >>,
     << "HOUR", 2, TRUE >>, << "HOUR", 5, TRUE >>, << "HOUR", 2, FALSE >>,
     << "DAILY", 7, TRUE >>, << "DAILY", 2, TRUE >>, << "DAILY", 7, FALSE >>,
     << "WEEKLY", 2, TRUE >>, << "WEEKLY", 3, TRUE >>, << "WEEKLY", 2, FALSE >>,
     << "MONTHLY", 2, TRUE >>, << "MONTHLY", 2, FALSE >>,
     << "TICK", 2, TRUE >>, << "TICK", 2, FALSE >>}
\* timestamps of the bars fed to a generator of the given target granularity:
\* MINUTE: 09:00:30, 09:03, 09:06, 10:00 and 10:03 of 2024-01-01;
\* HOUR: 09:15, 10:00, 11:00 and 12:00 of 2024-01-01 and 09:30 of 2024-01-02;
\* DAILY: 09:00 of Jan 7, Jan 8 and Jan 30, 23:30 of Jan 31, 09:00 of Feb 1 and
\*        of Mar 1 of 2024;
\* WEEKLY: 09:00 of Wed Jan 3, Mon Jan 8, Sun Jan 14, Mon Jan 15 and Mon Jan 22
\*         of 2024 (ISO weeks 1, 2, 2, 3 and 4);
\* MONTHLY: 09:00 of Feb 15, Mar 15, Nov 15 and Dec 15 of 2024 and Jan 15 of 2025;
\* TICK: 09:00, 09:01 and 10:00 of 2024-01-01 and 09:30 of 2024-01-02
PolicyTimes(iv) ==
    CASE iv = "MINUTE" -> {32430, 32580, 32760, 36000, 36180}
      [] iv = "HOUR" -> {33300, 36000, 39600, 43200, 120600}
      [] iv = "DAILY" -> {550800, 637200, 2538000, 2676600, 2710800, 5216400}
      [] iv = "WEEKLY" -> {205200, 637200, 1155600, 1242000, 1846800}
      [] iv = "MONTHLY" -> {3920400, 6426000, 27594000, 30186000, 32864400}
      [] OTHER -> {32400, 32460, 36000, 120600}
\* [open, high, low, close, volume, open interest] of those bars
PolicyBodies == {<< 1, 3, 1, 2, 2, 11 >>}
PolicyBars(iv) ==
    {Bar(dt, "MINUTE", x[1], x[2], x[3], x[4], x[5], x[6]) :
        dt \in PolicyTimes(iv), x \in PolicyBodies}

\* the window reducer with a window sink, for each configuration of PolicyConfigs
InitPolicy ==
    /\ on_bar = TRUE
    /\ on_window_bar = TRUE
    /\ \E c \in PolicyConfigs : interval = c[1] /\ window = c[2] /\ interval_slice = c[3]
    /\ sinks_raise = FALSE
    /\ InitInner
    /\ now = 34200
    /\ InitHistory
    /\ InitCalls

NextPolicy == \E b \in PolicyBars(interval) : UpdateBar(b)

SpecPolicy == InitPolicy /\ [][NextPolicy]_vars

\* the inputs of the specification of overlapping calls: ticks of 09:30:00 and
\* 09:31:00 and bars of 09:30 and 09:31, while the clock reads 09:32:01
RaceTicks == {Tick(34200, 1, 3, 10), Tick(34200, 2, 5, 10), Tick(34260, 2, 3, 10)}
RaceBars == {Bar(34200, "MINUTE", 1, 3, 1, 2, 1, 10), Bar(34260, "MINUTE", 2, 2, 2, 2, 2, 11)}

\* a one-minute generator with both sinks, entered by the callers of Callers
InitCalling ==
    /\ on_bar = TRUE
    /\ on_window_bar = TRUE
    /\ interval = "MINUTE"
    /\ window = 1
    /\ interval_slice = TRUE
    /\ sinks_raise = FALSE
    /\ InitInner
    /\ now = 34321
    /\ InitHistory
    /\ InitCalls

NextCalling ==
    \E c \in Callers :
        \/ \E tick \in RaceTicks : TickBegin(c, tick)
        \/ TickEnd(c)
        \/ \E b \in RaceBars : BarBegin(c, b)
        \/ BarEnd(c)
        \/ GenerateBegin(c)
        \/ GenerateEnd(c)

SpecCalling == InitCalling /\ [][NextCalling]_vars

\* the tick reducer and the watchdog entered by the callers of Callers, the
\* watchdog one locked block at a time
NextWatchdog ==
    \E c \in Callers :
        \/ \E tick \in RaceTicks : MayRun(c) /\ TickBegin(c, tick)
        \/ MayRun(c) /\ TickEnd(c)
        \/ GenerateRead(c)
        \/ GenerateMark(c)
        \/ GenerateTake(c)
        \/ MayRun(c) /\ GenerateEnd(c)

SpecWatchdog == InitCalling /\ [][NextWatchdog]_vars

\* the inputs of the specification of the calls that are refused or go wrong: two
\* ordinary ticks, a tick with a negative last price, two empty ticks (the second
\* without a datetime) and a tick with a price but without a datetime
FaultTicks ==
    {Tick(34200, 1, 3, 10), Tick(34260, 2, 5, 10), Tick(34200, -1, 5, 10),
     Tick(34200, 0, 5, 10), Tick(-1, 0, 5, 10), Tick(-1, 2, 5, 10)}
\* two ordinary bars and a bar without a datetime
FaultBars ==
    {Bar(34200, "MINUTE", 1, 3, 1, 2, 1, 10), Bar(34260, "MINUTE", 2, 2, 2, 2, 2, 11),
     Bar(-1, "MINUTE", 2, 2, 2, 2, 2, 11)}

\* both reducers and the watchdog on a one-minute generator whose sinks, where
\* configured, either all return or all raise
InitFaults ==
    /\ on_bar \in BOOLEAN
    /\ on_window_bar \in BOOLEAN
    /\ interval = "MINUTE"
    /\ window = 1
    /\ interval_slice = TRUE
    /\ sinks_raise \in BOOLEAN
    /\ InitInner
    /\ now = 34200
    /\ InitHistory
    /\ InitCalls

NextFaults ==
    \/ \E tick \in FaultTicks : UpdateTick(tick)
    \/ \E b \in FaultBars : UpdateBar(b)
    \/ GenerateBarEvent
    \/ \E t \in FewClockTimes : AdvanceClock(t)

SpecFaults == InitFaults /\ [][NextFaults]_vars

\* -------------------------------------------------------------- properties
SetMax(S) == CHOOSE x \in S : \A y \in S : y <= x
SetMin(S) == CHOOSE x \in S : \A y \in S : x <= y
RECURSIVE SeqSum(_)
SeqSum(s) == IF s = << >> THEN 0 ELSE Head(s) + SeqSum(Tail(s))

\* the minute bucket of an instant: the instant with its seconds dropped
MinuteBucket(dt) == dt - (dt % 60)
OneBucket(ticks) ==
    \A i, j \in 1..Len(ticks) : MinuteBucket(ticks[i].datetime) = MinuteBucket(ticks[j].datetime)
TickPrices_(ticks) == {ticks[i].last_price : i \in 1..Len(ticks)}
\* what an accepted tick adds to the volume of its bar
TickDelta(e) ==
    IF IsNone(e.prev_volume) THEN 0
    ELSE IF e.volume > Unwrap(e.prev_volume) THEN e.volume - Unwrap(e.prev_volume) ELSE 0
TickDeltas(ticks) == [i \in 1..Len(ticks) |-> TickDelta(ticks[i])]

\* C1: for accepted ticks that all fall in one minute bucket, followed by a tick in
\* a later minute, update_tick on that later tick closes the bar (the later tick is
\* never merged into it), and the bar it hands to on_bar has open = the first tick's
\* price, close = the last tick's price, high = the maximum and low = the minimum of
\* the prices of those ticks.
C1_MinuteBarOhlc ==
    /\ \A i \in 2..Len(bar_ticks) :
          OneBucket(SubSeq(bar_ticks, 1, i - 1))
              => MinuteBucket(bar_ticks[i].datetime) <= MinuteBucket(bar_ticks[1].datetime)
    /\ (IsSome(on_bar_call) /\ Unwrap(on_bar_call).by = "update_tick"
            /\ OneBucket(Unwrap(on_bar_call).ticks))
          => LET b == Unwrap(on_bar_call).bar
                 ticks == Unwrap(on_bar_call).ticks
             IN  /\ b.open_price = ticks[1].last_price
                 /\ b.close_price = ticks[Len(ticks)].last_price
                 /\ b.high_price = SetMax(TickPrices_(ticks))
                 /\ b.low_price = SetMin(TickPrices_(ticks))

\* C2: the volume of every minute bar handed to on_bar (by update_tick or by the
\* watchdog), and of the in-progress minute bar, is the sum over the ticks merged
\* into it of max(0, tick.volume - volume of the accepted tick before it); a
\* decrease adds 0 and the first accepted tick after construction adds 0.
C2_MinuteBarVolume ==
    /\ IsSome(on_bar_call)
          => Unwrap(on_bar_call).bar.volume = SeqSum(TickDeltas(Unwrap(on_bar_call).ticks))
    /\ IsSome(bar) => Unwrap(bar).volume = SeqSum(TickDeltas(bar_ticks))

\* C2 witness: a delivered bar of two ticks with a positive volume, one of whose
\* ticks carried a cumulative volume below that of the tick before it
C2_Witness ==
    /\ IsSome(on_bar_call)
    /\ Len(Unwrap(on_bar_call).ticks) = 2
    /\ Unwrap(on_bar_call).bar.volume > 0
    /\ \E i \in 1..2 :
          LET e == Unwrap(on_bar_call).ticks[i]
          IN  IsSome(e.prev_volume) /\ e.volume < Unwrap(e.prev_volume)

\* C9: update_tick with an accepted tick starts a new bar (open = high = low =
\* close = last_price) whenever there is no in-progress bar or the bar's minute
\* bucket differs from the tick's, and merges the tick otherwise: every tick merged
\* into the in-progress bar lies in the bar's minute bucket, and a bar of one tick
\* has the four prices of that tick.
C9_NewBarOnBucketChange ==
    IsSome(bar) =>
        /\ \A i \in 1..Len(bar_ticks) :
              MinuteBucket(bar_ticks[i].datetime) = MinuteBucket(Unwrap(bar).datetime)
        /\ Len(bar_ticks) = 1 =>
              /\ Unwrap(bar).open_price = bar_ticks[1].last_price
              /\ Unwrap(bar).high_price = bar_ticks[1].last_price
              /\ Unwrap(bar).low_price = bar_ticks[1].last_price
              /\ Unwrap(bar).close_price = bar_ticks[1].last_price

\* low <= open <= high, low <= close <= high and volume >= 0
WellFormed(b) ==
    /\ b.low_price <= b.open_price /\ b.open_price <= b.high_price
    /\ b.low_price <= b.close_price /\ b.close_price <= b.high_price
    /\ b.volume >= 0
AllWellFormed(bars) == \A i \in 1..Len(bars) : WellFormed(bars[i])

\* C10: in every reachable state the in-progress minute bar and every minute bar
\* handed to on_bar are well formed (low <= open <= high, low <= close <= high,
\* volume >= 0), and so are the in-progress window bar and every window bar handed
\* to on_window_bar whose constituent bars are all well formed.
C10_BarsWellFormed ==
    /\ IsSome(bar) => WellFormed(Unwrap(bar))
    /\ IsSome(on_bar_call) => WellFormed(Unwrap(on_bar_call).bar)
    /\ (IsSome(window_bar) /\ AllWellFormed(window_bars)) => WellFormed(Unwrap(window_bar))
    /\ (IsSome(on_window_bar_call) /\ AllWellFormed(Unwrap(on_window_bar_call).bars))
          => WellFormed(Unwrap(on_window_bar_call).bar)

\* C10 witness: a delivered minute bar whose high is above its low, while a window
\* bar built from well-formed bars only is in progress
C10_Witness ==
    /\ IsSome(on_bar_call)
    /\ Unwrap(on_bar_call).bar.high_price > Unwrap(on_bar_call).bar.low_price
    /\ IsSome(window_bar) /\ Len(window_bars) >= 2 /\ AllWellFormed(window_bars)

BarHighs(bars) == {bars[i].high_price : i \in 1..Len(bars)}
BarLows(bars) == {bars[i].low_price : i \in 1..Len(bars)}
BarVolumes(bars) == [i \in 1..Len(bars) |-> bars[i].volume]
\* a window bar is the aggregate of the bars
Aggregates(w, bars) ==
    /\ w.open_price = bars[1].open_price
    /\ w.close_price = bars[Len(bars)].close_price
    /\ w.high_price = SetMax(BarHighs(bars))
    /\ w.low_price = SetMin(BarLows(bars))
    /\ w.volume = SeqSum(BarVolumes(bars))
    /\ w.open_interest = bars[Len(bars)].open_interest

\* C3: every window bar handed to on_window_bar, and the in-progress window bar,
\* aggregates the bars ingested since the previous emission (or construction):
\* open of the first, close and open interest of the last, the highest high, the
\* lowest low and the sum of the volumes.
C3_WindowBarAggregates ==
    /\ IsSome(on_window_bar_call)
          => Aggregates(Unwrap(on_window_bar_call).bar, Unwrap(on_window_bar_call).bars)
    /\ IsSome(window_bar) => Aggregates(Unwrap(window_bar), window_bars)

\* C3 witness: an emitted window bar of three bars or more whose high comes from
\* neither its first nor its last bar
C3_Witness ==
    /\ IsSome(on_window_bar_call)
    /\ LET w == Unwrap(on_window_bar_call).bar
           bars == Unwrap(on_window_bar_call).bars
       IN  /\ Len(bars) >= 3
           /\ w.high_price > bars[1].high_price
           /\ w.high_price > bars[Len(bars)].high_price
           /\ w.volume > bars[Len(bars)].volume

MinuteOfHour(dt) == (dt \div 60) % 60
FiveMinuteSlices == interval = "MINUTE" /\ window = 5 /\ interval_slice
\* the call detached a window bar, and handed it to the sink if there is one
Emits(closes) ==
    /\ IsNone(window_bar') <=> closes
    /\ on_window_bar => (IsSome(on_window_bar_call') <=> closes)

\* C4: with window = 5, MINUTE and slicing, update_bar emits a window bar exactly
\* when the minute-of-hour of the ingested bar is one of 0, 5, ..., 55.
C4_EmitsOnMultiplesOfFive ==
    [][\A b \in BarInputs("MINUTE") :
          (FiveMinuteSlices /\ UpdateBar(b))
              => Emits(MinuteOfHour(b.datetime) \in {0, 5, 10, 15, 20, 25, 30, 35, 40, 45, 50, 55})
      ]_vars

\* C4 as amended: with window = 5, MINUTE and slicing, update_bar emits a window
\* bar exactly when a bar was ingested before, the minute-of-hour of the ingested
\* bar differs from that of the bar ingested before it, and it is one of
\* 0, 5, ..., 55.
C4_EmitsOnChangeToMultipleOfFive ==
    [][\A b \in BarInputs("MINUTE") :
          (FiveMinuteSlices /\ UpdateBar(b))
              => Emits(/\ IsSome(last_bar)
                       /\ MinuteOfHour(Unwrap(last_bar).datetime) # MinuteOfHour(b.datetime)
                       /\ MinuteOfHour(b.datetime)
                              \in {0, 5, 10, 15, 20, 25, 30, 35, 40, 45, 50, 55})
      ]_vars

\* C4 witness: a five-minute window bar emitted by a bar at minute 5
C4_Witness ==
    /\ FiveMinuteSlices
    /\ IsSome(on_window_bar_call)
    /\ IsSome(last_bar) /\ MinuteOfHour(Unwrap(last_bar).datetime) = 5

\* C5: under the counter policy the transition counter is the number of
\* period-value changes since the previous emission (or construction): each
\* update_bar whose period value differs from the previous bar's adds exactly 1,
\* no other update_bar changes it, and a window bar is emitted exactly on the
\* change that is the window-th one, which resets the counter.
C5_CounterPolicy ==
    [][\A b \in BarInputs(interval) :
          (~use_target_check /\ UpdateBar(b))
              => LET changed == PeriodChanged(last_bar, b.datetime)
                     nth == changed /\ changes + 1 = window
                 IN  /\ interval_count = changes
                     /\ Emits(nth)
                     /\ interval_count' = IF nth THEN 0
                                          ELSE IF changed THEN interval_count + 1
                                          ELSE interval_count
      ]_vars

\* C5 witness: a window of three day changes emitted under the counter policy
C5_Witness ==
    /\ interval = "DAILY" /\ window = 3 /\ ~use_target_check
    /\ IsSome(on_window_bar_call)
    /\ Len(Unwrap(on_window_bar_call).bars) = 4

\* C6: right after an update_bar that emits a window bar the transition counter
\* and the reset counter are 0, the force-flush set is empty and no window bar is
\* in progress; the bar ingested next starts a window that holds the prices, the
\* volume and the open interest of that bar alone.
C6_CleanAfterEmission ==
    [][\A b \in FewBars :
          UpdateBar(b)
              => /\ (IsNone(window_bar') \/ IsSome(on_window_bar_call'))
                    => /\ interval_count' = 0
                       /\ reset_count' = 0
                       /\ bar_push_status' = {}
                       /\ IsNone(window_bar')
                 /\ (IsNone(window_bar) /\ IsSome(last_bar))
                    => /\ IsSome(window_bar') => BarEntry(Unwrap(window_bar')) = BarEntry(b)
                       /\ IsSome(on_window_bar_call')
                             => BarEntry(Unwrap(on_window_bar_call').bar) = BarEntry(b)
      ]_vars

\* C6 witness: a window bar was just emitted under the counter policy, after the
\* watchdog had force-flushed a minute bar
C6_Witness ==
    /\ IsSome(on_window_bar_call)
    /\ ~use_target_check
    /\ interval_count = 0 /\ bar_push_status = {}
    /\ IsSome(last_tick) /\ IsNone(bar)

\* C7: when a minute bar is in progress and generate_bar_event runs with
\* now - bar.timestamp > 2 minutes, one bar is handed to on_bar and the
\* in-progress bar is cleared; a further call with no bar in progress hands over
\* nothing and changes no state.
C7_StaleBarIsForced ==
    [][GenerateBarEvent
          => /\ (IsSome(bar) /\ now - Unwrap(bar).datetime > 120)
                => /\ on_bar => IsSome(on_bar_call')
                   /\ IsNone(bar')
             /\ IsNone(bar) => (IsNone(on_bar_call') /\ UNCHANGED inner)
      ]_vars

\* C7 as amended: when a minute bar is in progress whose timestamp is not marked
\* force-flushed and generate_bar_event runs with now - bar.timestamp > 2 minutes,
\* one bar is handed to on_bar, the timestamp is marked and the in-progress bar is
\* cleared; a further call with no bar in progress hands over nothing and changes
\* no state.
C7_UnmarkedStaleBarIsForced ==
    [][GenerateBarEvent
          => /\ (IsSome(bar) /\ now - Unwrap(bar).datetime > 120
                   /\ Unwrap(bar).datetime \notin bar_push_status)
                => /\ on_bar => (IsSome(on_bar_call') /\ Unwrap(on_bar_call').by = "generate")
                   /\ IsNone(bar')
                   /\ bar_push_status' = bar_push_status \cup {Unwrap(bar).datetime}
             /\ IsNone(bar) => (IsNone(on_bar_call') /\ UNCHANGED inner)
      ]_vars

\* C7 witness: the watchdog has just handed a forced bar to on_bar
C7_Witness ==
    /\ IsSome(on_bar_call) /\ Unwrap(on_bar_call).by = "generate"
    /\ IsNone(bar)
    /\ bar_push_status # {}

\* an accepted tick arrives
TickArrives == \E tick \in TickInputs : tick.last_price # 0 /\ UpdateTick(tick)

\* C8: if no further tick arrives, then under repeated generate_bar_event calls
\* with the clock advancing the in-progress minute bar is eventually cleared, from
\* every reachable state.
C8_StaleBarIsEventuallyCleared == <>[][~TickArrives]_vars => <>[]IsNone(bar)

\* the call handed nothing to either sink
NoSinkCalled == on_bar_call' = None /\ on_window_bar_call' = None

\* C11: update_tick with a tick whose last_price is 0 changes no state and emits
\* nothing: the in-progress minute bar, the last tick (the base of the next volume
\* delta), the window bar, the counters, the last bar and the force-flush set are
\* unchanged, neither sink is called, and the call returns Ok.
C11_EmptyTickChangesNothing ==
    [][\A tick \in FaultTicks :
          (tick.last_price = 0 /\ UpdateTick(tick))
              => /\ UNCHANGED << bar, last_tick, window_bar, interval_count, reset_count,
                                 last_bar, bar_push_status, accepted_volume >>
                 /\ NoSinkCalled
                 /\ returned' = Some("Ok")
      ]_vars

\* C11 witness: an empty tick was just dropped while a minute bar and a window bar
\* were in progress and a bucket was marked force-flushed
C11_Witness ==
    /\ dropped
    /\ IsSome(bar) /\ IsSome(last_tick)
    /\ IsSome(window_bar)
    /\ bar_push_status # {}

\* C12: update_tick with a tick whose last_price is negative drops it like an
\* empty tick: no error, no state change, no sink called.
C12_NegativeTickIsDropped ==
    [][\A tick \in FaultTicks :
          (tick.last_price < 0 /\ UpdateTick(tick))
              => /\ UNCHANGED inner
                 /\ NoSinkCalled
                 /\ returned' = Some("Ok")
      ]_vars

\* C12 as amended: update_tick with a tick whose last_price is negative (and that
\* has a datetime) accepts it like any tick with a nonzero price: the call returns
\* Ok, the tick becomes the last tick and the in-progress bar closes at the
\* negative price, with its low at or below it.
C12_NegativeTickIsAccepted ==
    [][\A tick \in FaultTicks :
          (tick.last_price < 0 /\ tick.datetime >= 0 /\ UpdateTick(tick))
              => /\ returned' = Some("Ok")
                 /\ ~dropped'
                 /\ last_tick' = Some(tick)
                 /\ IsSome(bar')
                 /\ Unwrap(bar').close_price = tick.last_price
                 /\ Unwrap(bar').low_price <= tick.last_price
                 /\ Unwrap(bar').datetime = tick.datetime
      ]_vars

\* C12 witness: the in-progress bar holds a negative price that its last tick
\* brought in
C12_Witness ==
    /\ IsSome(bar) /\ Unwrap(bar).close_price < 0
    /\ IsSome(last_tick) /\ Unwrap(last_tick).last_price < 0
    /\ ~dropped

\* C13: update_tick with a tick that has a nonzero price and no datetime, and
\* update_bar with a bar that has no datetime, return Err and leave the whole
\* state unchanged: no bar detached, no counter changed, last tick and last bar
\* not replaced, no sink called.
C13_MissingTimestampFails ==
    [][/\ \A tick \in FaultTicks :
             (tick.last_price # 0 /\ tick.datetime < 0 /\ UpdateTick(tick))
                 => (returned' = Some("Err") /\ UNCHANGED inner /\ NoSinkCalled)
       /\ \A b \in FaultBars :
             (b.datetime < 0 /\ UpdateBar(b))
                 => (returned' = Some("Err") /\ UNCHANGED inner /\ NoSinkCalled)
      ]_vars

\* C13 witness: a call has just failed although no sink raises, while a minute bar
\* and a window bar were in progress
C13_Witness ==
    /\ returned = Some("Err") /\ ~sinks_raise
    /\ IsSome(bar) /\ IsSome(last_tick)
    /\ IsSome(window_bar) /\ IsSome(last_bar)

\* C14: when the sink raises while update_tick or update_bar delivers a finished
\* bar, the call returns Ok and its transition is committed: for update_tick the
\* in-progress bar is the one created from the tick and the tick is the last tick;
\* for update_bar the window bar is detached, both counters are 0 and the bar is
\* the last bar.
C14_SinkFailureIsSwallowed ==
    [][/\ \A tick \in FaultTicks :
             (sinks_raise /\ UpdateTick(tick) /\ IsSome(on_bar_call'))
                 => /\ returned' = Some("Ok")
                    /\ last_tick' = Some(tick)
                    /\ IsSome(bar')
                    /\ Unwrap(bar').datetime = tick.datetime
                    /\ Unwrap(bar').open_price = tick.last_price
                    /\ Unwrap(bar').high_price = tick.last_price
                    /\ Unwrap(bar').low_price = tick.last_price
                    /\ Unwrap(bar').close_price = tick.last_price
       /\ \A b \in FaultBars :
             (sinks_raise /\ UpdateBar(b) /\ IsSome(on_window_bar_call'))
                 => /\ returned' = Some("Ok")
                    /\ IsNone(window_bar')
                    /\ interval_count' = 0 /\ reset_count' = 0
                    /\ last_bar' = Some(b)
      ]_vars

\* C14 witness: update_tick has just handed a finished bar to a sink that raises,
\* after update_bar had done the same with a window bar
C14_Witness ==
    /\ sinks_raise
    /\ IsSome(on_bar_call) /\ Unwrap(on_bar_call).by = "update_tick"
    /\ returned = Some("Ok")
    /\ on_window_bar /\ IsSome(last_bar) /\ IsNone(window_bar)

\* C15: when on_bar raises during an emission forced by generate_bar_event, the
\* call returns Ok all the same, with the in-progress bar cleared and its
\* timestamp marked force-flushed.
C15_WatchdogSinkFailureIsSwallowed ==
    [][(sinks_raise /\ GenerateBarEvent /\ IsSome(on_bar_call'))
          => /\ returned' = Some("Ok")
             /\ IsNone(bar')
             /\ Unwrap(bar).datetime \in bar_push_status'
      ]_vars

\* caller c is inside a sink its handler called
InSink(c) == pc[c] # "idle"

\* C16: in update_tick, update_bar and generate_bar_event no sink is called while
\* the calling handler holds the lock, read or write: whenever a caller is inside a
\* sink the lock is free, so a handler entered from inside the sink acquires it
\* and runs on instead of waiting for a guard its own caller would hold.
C16_NoSinkUnderLock == \A c \in Callers : InSink(c) => lock = None

\* C16 witness: while one caller is still inside on_bar, a handler entered after
\* it has taken the lock, changed the state and returned
C16_Witness ==
    \E c \in Callers :
        /\ pc[c] = "update_tick:on_bar"
        /\ \A d \in Callers \ {c} : pc[d] = "idle"
        /\ Len(round_inputs) = 2
        /\ IsSome(bar)

\* update_tick_internal run alone on [bar, last_tick, out], out being the bars
\* handed to on_bar so far
SequentialTick(st, tick) ==
    IF is_empty_tick(tick) \/ IsNone(get_datetime_chrono(tick)) THEN st
    ELSE LET is_new == new_minute(st.bar, Unwrap(get_datetime_chrono(tick)))
             change == volume_change(tick, st.last_tick)
         IN  [bar |-> BarAfterTick(st.bar, tick, st.last_tick, is_new, change),
              last_tick |-> Some(tick),
              out |-> IF is_new /\ IsSome(st.bar) /\ on_bar
                      THEN Append(st.out, trim_bar_time(Unwrap(st.bar)))
                      ELSE st.out]

\* the bars handed to on_bar since the calls that overlap began
RoundDelivered ==
    LET n == Unwrap(round_start).delivered
    IN  [i \in 1..(Len(delivered) - n) |-> delivered[n + i].bar]

\* C17: when two update_tick calls overlap, the in-progress bar, the last tick
\* and the bars handed to on_bar after both have returned are those of running
\* the two calls one after the other, in one of the two orders.
C17_TickCallsSerialize ==
    (/\ Quiescent
     /\ Len(round_inputs) = 2
     /\ \A i \in 1..2 : round_inputs[i].op = "update_tick")
        => LET start == [bar |-> Unwrap(round_start).bar,
                         last_tick |-> Unwrap(round_start).last_tick,
                         out |-> << >>]
               t1 == round_inputs[1].tick
               t2 == round_inputs[2].tick
               end == [bar |-> bar, last_tick |-> last_tick, out |-> RoundDelivered]
           IN  \/ end = SequentialTick(SequentialTick(start, t1), t2)
               \/ end = SequentialTick(SequentialTick(start, t2), t1)

\* C18: every minute bar that left inner.bar was handed to on_bar once and no bar
\* twice, and every window bar that left inner.window_bar was handed to
\* on_window_bar once and none twice, however update_tick, update_bar and
\* generate_bar_event overlap.
C18_DeliveredExactlyOnce ==
    /\ \A i, j \in 1..Len(delivered) :
          delivered[i].serial = delivered[j].serial => i = j
    /\ removed = {delivered[i].serial : i \in 1..Len(delivered)}
    /\ \A i, j \in 1..Len(window_delivered) :
          window_delivered[i] = window_delivered[j] => i = j
    /\ window_removed = {window_delivered[i] : i \in 1..Len(window_delivered)}

\* C19: with MONTHLY, for either value of interval_slice, update_bar emits a
\* window bar exactly when the number of month changes since the previous emission
\* (or construction) reaches a multiple of window; the target months are never
\* consulted.
C19_MonthlyUsesCounter ==
    [][\A b \in CalendarBars("MONTHLY") :
          (interval = "MONTHLY" /\ UpdateBar(b))
              => Emits(/\ IsSome(last_bar)
                       /\ month(Unwrap(last_bar).datetime) # month(b.datetime)
                       /\ (changes + 1) % window = 0)
      ]_vars

\* the granularities the target-set policy is stated for
TargetGranularity == interval \in {"MINUTE", "HOUR", "DAILY", "WEEKLY"}
\* the legal range of the period value
LegalValues ==
    CASE interval = "MINUTE" -> (IF interval_slice /\ window >= 60 THEN 0..1439 ELSE 0..59)
      [] interval = "HOUR" -> 0..23
      [] interval = "DAILY" -> 1..31
      [] interval = "WEEKLY" -> 1..53
      [] OTHER -> {}
\* the first value of the legal range
FirstLegalValue == IF interval \in {"MINUTE", "HOUR"} THEN 0 ELSE 1

\* C20: under the target-set policy the closing values are the multiples of
\* window within the legal range (MINUTE 0..59, or minute-of-day when
\* window >= 60; HOUR 0..23; DAILY 1..31; WEEKLY 1..53), and update_bar on a bar
\* whose period value differs from the previous bar's emits exactly when the new
\* value is a multiple of window.
C20_ClosingValuesAreMultiples ==
    /\ [](TargetGranularity => \A v \in LegalValues : check_target_value(v) <=> v % window = 0)
    /\ [][\A b \in CalendarBars(interval) :
             (TargetGranularity /\ use_target_check /\ UpdateBar(b))
                 => Emits(/\ PeriodChanged(last_bar, b.datetime)
                          /\ get_interval_value_from_dt(b.datetime) % window = 0)
         ]_vars

\* C20 as amended: under the target-set policy the closing values are the first
\* value of the legal range and every window-th value after it (MINUTE 0..59 and
\* HOUR 0..23: the multiples of window; minute-of-day when window >= 60:
\* v % window = 0; DAILY 1..31 and WEEKLY 1..53: 1, 1 + window, 1 + 2 * window,
\* ...), and update_bar on a bar whose period value differs from the previous
\* bar's emits exactly when the new value is one of them.
C20_ClosingValuesStepFromRangeStart ==
    /\ [](TargetGranularity
            => \A v \in LegalValues :
                  check_target_value(v) <=> (v - FirstLegalValue) % window = 0)
    /\ [][\A b \in CalendarBars(interval) :
             (TargetGranularity /\ use_target_check /\ UpdateBar(b))
                 => Emits(/\ PeriodChanged(last_bar, b.datetime)
                          /\ (get_interval_value_from_dt(b.datetime) - FirstLegalValue)
                                 % window = 0)
         ]_vars

\* C20 witness: a seven-day window bar emitted by the bar of the 8th, after the
\* bar of the 7th had emitted nothing
C20_Witness ==
    /\ interval = "DAILY" /\ window = 7 /\ use_target_check
    /\ IsSome(on_window_bar_call)
    /\ Len(Unwrap(on_window_bar_call).bars) >= 2
    /\ day(Unwrap(last_bar).datetime) = 8

\* the cycle length of the granularity, as the policy selection counts it
CycleLength ==
    CASE interval = "MINUTE" -> (IF window < 60 THEN 60 ELSE 1440)
      [] interval = "HOUR" -> 24
      [] interval = "DAILY" -> 7
      [] interval = "WEEKLY" -> 52
      [] OTHER -> 0
\* slicing is enabled and the window divides the cycle
TargetPolicySelected == interval_slice /\ CycleLength % window = 0

CreatedWindow == IF IsSome(window_bar') THEN Unwrap(window_bar') ELSE Unwrap(on_window_bar_call').bar
\* Monday 00:00 of the ISO week that contains dt
StartOfIsoWeek(dt) == TruncDay(dt) - (weekday(dt) - 1) * 86400

\* C22: a window bar that update_bar creates for WEEKLY starts at Monday 00:00 of
\* the ISO week that contains the bar's time plus one week.
C22_WeeklyStartsOnMonday ==
    [][\A b \in PolicyBars("WEEKLY") :
          (interval = "WEEKLY" /\ IsNone(window_bar) /\ UpdateBar(b))
              => CreatedWindow.datetime = StartOfIsoWeek(b.datetime + 7 * 86400)
      ]_vars

\* C23: a window bar that update_bar creates starts, for MINUTE, at the bar's time
\* truncated to the minute; for HOUR, truncated to the hour; for DAILY, at the
\* midnight that follows the bar's day; for MONTHLY, at 00:00 of the first day of
\* the month that follows the bar's month (January of the next year after
\* December).
C23_WindowStart ==
    [][\A b \in PolicyBars(interval) :
          (IsNone(window_bar) /\ UpdateBar(b))
              => LET s == CreatedWindow.datetime
                     dt == b.datetime
                 IN  /\ interval = "MINUTE" => s % 60 = 0 /\ s <= dt /\ dt < s + 60
                     /\ interval = "HOUR" => s % 3600 = 0 /\ s <= dt /\ dt < s + 3600
                     /\ interval = "DAILY" => s % 86400 = 0 /\ s - 86400 <= dt /\ dt < s
                     /\ interval = "MONTHLY"
                            => /\ s % 86400 = 0 /\ day(s) = 1
                               /\ month(dt) = 12 => month(s) = 1 /\ year(s) = year(dt) + 1
                               /\ month(dt) < 12 => month(s) = month(dt) + 1 /\ year(s) = year(dt)
      ]_vars

\* C23 witness: a monthly window opened by a bar of December 2024, labelled
\* 2025-01-01 00:00
C23_Witness ==
    /\ interval = "MONTHLY"
    /\ IsSome(window_bar) /\ Len(window_bars) = 1
    /\ month(Unwrap(last_bar).datetime) = 12
    /\ year(Unwrap(window_bar).datetime) = 2025
    /\ month(Unwrap(window_bar).datetime) = 1

\* the period value of an instant, as the boundary detection is stated to use it
PeriodValue(dt) ==
    CASE interval = "MINUTE" ->
            (IF interval_slice /\ window >= 60 THEN (dt % 86400) \div 60 ELSE (dt % 3600) \div 60)
      [] interval = "HOUR" -> (dt % 86400) \div 3600
      [] interval = "DAILY" -> day(dt)
      [] interval = "WEEKLY" -> iso_week(dt)
      [] interval = "MONTHLY" -> month(dt)
      [] OTHER -> 0

\* C24: the period value is the minute of the hour for MINUTE (the minute of the
\* day when slicing is enabled and window >= 60), the hour of the day for HOUR,
\* the day of the month for DAILY, the ISO week for WEEKLY and the month for
\* MONTHLY; and update_bar on a bar whose period value equals that of the bar
\* stored before it (or with no bar stored) emits nothing and counts nothing.
C24_PeriodValue ==
    /\ [](interval # "TICK"
            => \A t \in PolicyTimes(interval) : get_interval_value_from_dt(t) = PeriodValue(t))
    /\ [][\A b \in PolicyBars(interval) :
             (/\ interval # "TICK"
              /\ IsNone(last_bar) \/ PeriodValue(Unwrap(last_bar).datetime) = PeriodValue(b.datetime)
              /\ UpdateBar(b))
                 => /\ Emits(FALSE)
                    /\ interval_count' = interval_count
         ]_vars

\* C24 witness: with a sliced window of 100 minutes a bar of 10:03 was counted as
\* a change of period, the minute of the day being the period value
C24_Witness ==
    /\ interval = "MINUTE" /\ window = 100 /\ interval_slice
    /\ Len(window_bars) = 2
    /\ interval_count = 1
    /\ Unwrap(last_bar).datetime = 36180

BucketMarked ==
    /\ IsSome(bar)
    /\ \E k \in bar_push_status : MinuteBucket(k) = MinuteBucket(Unwrap(bar).datetime)

\* C25: generate_bar_event is a no-op whenever the minute bucket of the
\* in-progress bar is already marked force-flushed, also when a later tick of
\* that bucket has re-created the bar with another timestamp: nothing is handed
\* to on_bar and no state changes.
C25_MarkedBucketIsNoOp ==
    [][(BucketMarked /\ GenerateBarEvent) => (IsNone(on_bar_call') /\ UNCHANGED inner)]_vars

\* C27: when update_tick calls on_bar for the bar it detached, the in-progress bar
\* of the triggering tick already exists and that tick is already the last tick.
C27_SinkSeesPostTransitionState ==
    [][\A c \in Callers, tick \in RaceTicks :
          (TickBegin(c, tick) /\ pc'[c] = "update_tick:on_bar")
              => /\ IsSome(bar')
                 /\ Unwrap(bar').datetime = tick.datetime
                 /\ Unwrap(bar').open_price = tick.last_price
                 /\ last_tick' = Some(tick)
      ]_vars

\* C28: when update_bar calls on_window_bar, last_bar already is the bar that
\* triggered the emission.
C28_LastBarStoredBeforeSink ==
    [][\A c \in Callers, b \in RaceBars :
          (BarBegin(c, b) /\ pc'[c] = "update_bar:on_window_bar") => last_bar' = Some(b)
      ]_vars

\* C29: however generate_bar_event and update_tick calls of several callers fall
\* together, a bar that generate takes out of inner.bar is, when it is taken, more
\* than 2 minutes older than now and its timestamp is marked in bar_push_status.
C29_WatchdogTakesTheJudgedBar ==
    [][\A c \in Callers :
          (GenerateTake(c) /\ IsSome(bar))
              => /\ now - Unwrap(bar).datetime > 120
                 /\ Unwrap(bar).datetime \in bar_push_status
                 /\ Unwrap(bar).datetime = Unwrap(frame[c]).bar_timestamp
      ]_vars

\* C29 witness: the watchdog is inside on_bar with the bar it forced, and an
\* update_tick of the other caller has meanwhile opened the next bar
C29_Witness ==
    \E c \in Callers :
        /\ pc[c] = "generate:on_bar"
        /\ Len(delivered) >= 1
        /\ delivered[Len(delivered)].bar.datetime = TruncMinute(now - ForcedBarLag)
        /\ bar_push_status # {}
        /\ IsSome(bar)
        /\ Len(round_inputs) >= 2

\* update_bar_internal run alone on [window_bar, last_bar, interval_count, out],
\* out being the number of window bars handed to on_window_bar so far
SequentialBar(st, b) ==
    IF IsNone(get_datetime_chrono(b)) THEN st
    ELSE LET bar_dt == Unwrap(get_datetime_chrono(b))
             wb == WindowAfterBar(st.window_bar, b)
             finished == WindowFinished(st.last_bar, bar_dt, st.interval_count)
         IN  [window_bar |-> IF finished THEN None ELSE Some(wb),
              last_bar |-> Some(b),
              interval_count |-> IF finished THEN 0
                                 ELSE CountAfterBar(st.last_bar, bar_dt, st.interval_count),
              out |-> IF finished /\ on_window_bar THEN st.out + 1 ELSE st.out]

\* C30: when two update_bar calls overlap, the merge, the boundary check and the
\* update of last_bar of each call act as one step: the window bar in progress,
\* the last bar, the transition counter and the number of window bars handed to
\* on_window_bar after both have returned are those of running the two calls one
\* after the other, in one of the two orders.
C30_BarCallsSerialize ==
       (/\ Quiescent
        /\ Len(round_inputs) = 2
        /\ \A i \in 1..2 : round_inputs[i].op = "update_bar")
           => LET start == [window_bar |-> Unwrap(round_start).window_bar,
                            last_bar |-> Unwrap(round_start).last_bar,
                            interval_count |-> Unwrap(round_start).interval_count,
                            out |-> 0]
                  b1 == round_inputs[1].bar
                  b2 == round_inputs[2].bar
                  end == [window_bar |-> window_bar, last_bar |-> last_bar,
                          interval_count |-> interval_count,
                          out |-> Len(window_delivered) - Unwrap(round_start).window_delivered]
              IN  \/ end = SequentialBar(SequentialBar(start, b1), b2)
                  \/ end = SequentialBar(SequentialBar(start, b2), b1)

\* C31: update_bar with no bar stored before it (the first one after
\* construction) emits no window bar and leaves the transition counter alone,
\* for every granularity, window and slice value, also when the bar's period
\* value is a target value.
C31_FirstBarNeverEmits ==
    [][\A b \in PolicyBars(interval) :
          (IsNone(last_bar) /\ UpdateBar(b))
              => /\ Emits(FALSE)
                 /\ interval_count' = 0
                 /\ interval_count = 0
                 /\ last_bar' = Some(b)
      ]_vars

\* C31 witness: with a sliced window of 6 minutes a bar of 10:00, whose minute is
\* a target minute, is the only bar of the window in progress
C31_Witness ==
    /\ interval = "MINUTE" /\ window = 6 /\ interval_slice
    /\ IsSome(last_bar)
    /\ check_target_value(get_interval_value_from_dt(Unwrap(last_bar).datetime))
    /\ Unwrap(last_bar).datetime = 36000
    /\ IsSome(window_bar) /\ Len(window_bars) = 1
    /\ IsNone(on_window_bar_call)

\* the volume gathered by the window bar in progress
VolumeSoFar == IF IsSome(window_bar) THEN Unwrap(window_bar).volume ELSE 0

\* C32: the bar that triggers a boundary is merged before the window bar is
\* detached: the window bar handed to on_window_bar has the close and the open
\* interest of the triggering bar, its volume on top of the volume gathered
\* before, and a high and a low that cover it; no window bar stays in progress,
\* so the bar is not part of the next window.
C32_TriggeringBarIsMerged ==
    [][\A b \in BarInputs(interval) :
          (UpdateBar(b) /\ IsSome(on_window_bar_call'))
              => LET w == Unwrap(on_window_bar_call').bar
                 IN  /\ w.close_price = b.close_price
                     /\ w.open_interest = b.open_interest
                     /\ w.volume = VolumeSoFar + b.volume
                     /\ w.high_price >= b.high_price
                     /\ w.low_price <= b.low_price
                     /\ IsNone(window_bar')
                     /\ window_bars' = << >>
      ]_vars

\* C32 witness: a window bar of two bars was handed over whose close and volume
\* differ from those the first bar gave it
C32_Witness ==
    /\ IsSome(on_window_bar_call)
    /\ LET w == Unwrap(on_window_bar_call).bar
           bars == Unwrap(on_window_bar_call).bars
       IN  /\ Len(bars) = 2
           /\ bars[1].close_price # w.close_price
           /\ bars[2].volume > 0
           /\ w.volume = bars[1].volume + bars[2].volume
           /\ bars[1].open_interest # w.open_interest
    /\ IsNone(window_bar)

\* C33: generate_bar_event changes no state and calls no sink when no minute bar
\* is in progress, or when now - bar.timestamp <= 2 minutes; a bar exactly two
\* minutes old is not forced.
C33_FreshBarIsLeftAlone ==
    [][(GenerateBarEvent /\ (IsNone(bar) \/ now - Unwrap(bar).datetime <= 120))
          => (UNCHANGED inner /\ NoSinkCalled /\ returned' = Some("Ok"))
      ]_vars

\* C33 witness: a bar exactly two minutes old is in progress after
\* generate_bar_event has run: the bar was opened by a tick that closed the bar
\* before it, and nothing but the watchdog's call resets the record of that
\* delivery while the bar holds one tick
C33_Witness ==
    /\ IsSome(bar)
    /\ now - Unwrap(bar).datetime = 120
    /\ Len(bar_ticks) = 1
    /\ Unwrap(bar).volume > 0
    /\ IsNone(on_bar_call)
    /\ bar_push_status = {}

\* the prices, the volume and the open interest of a minute bar
BarBody(b) == << b.open_price, b.high_price, b.low_price, b.close_price, b.volume,
                 b.open_interest >>

\* C34: the bar generate hands to on_bar carries the timestamp now - 1 minute cut
\* to the whole minute and the prices, volume and open interest the in-progress
\* bar had when it was taken; the bar update_tick hands to on_bar carries the
\* timestamp of the last tick merged into it, cut to the whole minute.
C34_DeliveredTimestamps ==
    /\ [][(IsSome(bar) /\ IsSome(on_bar_call') /\ GenerateBarEvent)
             => LET d == Unwrap(on_bar_call').bar
                IN  /\ d.datetime = MinuteBucket(now - 60)
                    /\ BarBody(d) = BarBody(Unwrap(bar))
         ]_vars
    /\ [](IsSome(on_bar_call) /\ Unwrap(on_bar_call).by = "update_tick"
             => LET d == Unwrap(on_bar_call).bar
                    ticks == Unwrap(on_bar_call).ticks
                IN  d.datetime = MinuteBucket(ticks[Len(ticks)].datetime))

\* C34 witness: at 09:32:01 the watchdog handed over a bar stamped 09:31, built
\* from two ticks of 09:30:00 with different prices
C34_Witness ==
    /\ IsSome(on_bar_call) /\ Unwrap(on_bar_call).by = "generate"
    /\ now = 34321
    /\ Unwrap(on_bar_call).bar.datetime = 34260
    /\ Len(Unwrap(on_bar_call).ticks) = 2
    /\ Unwrap(on_bar_call).ticks[2].datetime = 34200
    /\ Unwrap(on_bar_call).bar.high_price > Unwrap(on_bar_call).bar.low_price

\* C35: between calls the transition counter is at least 0 and below window, it
\* is 0 whenever the target-set policy applies, and the reset counter is 0.
C35_CounterStaysBelowWindow ==
    /\ interval_count >= 0
    /\ interval_count < window
    /\ (TargetGranularity /\ TargetPolicySelected) => interval_count = 0
    /\ reset_count = 0

\* C35 witness: two changes of week counted towards an unsliceable window of three
C35_Witness ==
    /\ interval = "WEEKLY" /\ window = 3 /\ interval_slice
    /\ interval_count = window - 1
    /\ IsSome(window_bar)

\* the window side of the state, and the tick side without the force-flush set
WindowSide == << window_bar, last_bar, interval_count, reset_count >>
TickSide == << bar, last_tick >>

\* C36: update_tick and generate_bar_event leave the window bar, the last bar
\* and both counters alone; update_bar leaves the minute bar and the last tick
\* alone, and leaves the force-flush set alone unless it detaches a window bar,
\* when it empties it.
C36_ReducersAreIndependent ==
    /\ [][\A tick \in FewTicks : UpdateTick(tick) => UNCHANGED WindowSide]_vars
    /\ [][GenerateBarEvent => UNCHANGED WindowSide]_vars
    /\ [][\A b \in FewBars :
             UpdateBar(b)
                => /\ UNCHANGED TickSide
                   /\ bar_push_status' =
                         IF IsNone(window_bar') THEN {} ELSE bar_push_status
         ]_vars

\* C36 witness: a window bar is in progress, fed by an update_bar that emitted
\* nothing, while a minute bar is in progress and a force-flush mark is kept
C36_Witness ==
    /\ IsSome(window_bar) /\ IsNone(on_window_bar_call)
    /\ IsSome(bar) /\ IsSome(last_tick)
    /\ bar_push_status # {}
    /\ IsNone(on_bar_call)

\* C37: generate_bar_event that forces a bar clears inner.bar and keeps last_tick;
\* the accepted tick that comes next, finding no bar, opens a bar of its own,
\* whatever its minute, and the volume of that bar is
\* max(0, tick.volume - last_tick.volume).
C37_TickAfterForcedEmission ==
    /\ [](IsNone(bar) /\ IsSome(last_tick) => bar_push_status # {})
    /\ [][/\ (IsSome(bar) /\ IsNone(bar') /\ GenerateBarEvent) => last_tick' = last_tick
          /\ (IsNone(bar) /\ IsSome(last_tick))
                => \A tick \in TickInputs :
                      (tick.last_price # 0 /\ UpdateTick(tick))
                         => LET d == tick.volume - Unwrap(last_tick).volume
                                n == Unwrap(bar')
                            IN  /\ IsNone(on_bar_call')
                                /\ bar_ticks' = << TickEntry(tick) >>
                                /\ n.datetime = tick.datetime
                                /\ n.open_price = tick.last_price
                                /\ n.high_price = tick.last_price
                                /\ n.low_price = tick.last_price
                                /\ n.close_price = tick.last_price
                                /\ n.volume = IF d > 0 THEN d ELSE 0
         ]_vars

\* C37 witness: after the bar of 09:30:00 was forced, the tick of 09:30:30 opened
\* a bar that starts with the volume traded since the tick before the flush
C37_Witness ==
    /\ 34200 \in bar_push_status
    /\ IsSome(bar) /\ Unwrap(bar).datetime = 34230
    /\ Len(bar_ticks) = 1
    /\ Unwrap(bar).volume = 2
    /\ IsNone(on_bar_call)

\* the boundary policy is satisfied by a bar of the given time
PolicySatisfied(dt) ==
    IF TargetPolicySelected THEN check_target_value(PeriodValue(dt))
    ELSE (interval_count + 1) % window = 0

\* C38: update_bar that finds no window bar in progress, a bar stored before it
\* and a period value that differs from that bar's and satisfies the boundary
\* policy creates a window bar and detaches it in the same call; the window bar
\* handed to on_window_bar has the open, high, low, close and volume of that one
\* bar.
C38_SingleBarWindow ==
    [][\A b \in BarInputs(interval) :
          (/\ IsNone(window_bar) /\ IsSome(last_bar)
           /\ PeriodValue(b.datetime) # PeriodValue(Unwrap(last_bar).datetime)
           /\ PolicySatisfied(b.datetime)
           /\ UpdateBar(b))
              => /\ Emits(TRUE)
                 /\ on_window_bar
                       => LET w == Unwrap(on_window_bar_call').bar
                          IN  /\ w.open_price = b.open_price
                              /\ w.high_price = b.high_price
                              /\ w.low_price = b.low_price
                              /\ w.close_price = b.close_price
                              /\ w.volume = b.volume
                              /\ Unwrap(on_window_bar_call').bars = << BarEntry(b) >>
      ]_vars

\* C38 witness: a window bar made of one bar with a nonzero volume was handed
\* over, by a call that followed an emission
C38_Witness ==
    /\ IsSome(on_window_bar_call)
    /\ Len(Unwrap(on_window_bar_call).bars) = 1
    /\ Unwrap(on_window_bar_call).bar.volume > 0
    /\ Unwrap(on_window_bar_call).bar.high_price > Unwrap(on_window_bar_call).bar.low_price
    /\ IsNone(window_bar)
====
